---- MODULE Spec2Model ----
(***************************************************************************)
(* Model of the config-compare backend: the /compare handler of            *)
(* backend/main.py and the three comparison pipelines of backend/utils     *)
(* (json_diff.py, yaml_diff.py, xml_diff.py).                              *)
(*                                                                         *)
(* Python values are tagged records [t, v]:                                *)
(*   int  [t |-> "int",  v |-> n]        str  [t |-> "str", v |-> s]       *)
(*   list [t |-> "list", v |-> <<..>>]   dict [t |-> "dict", v |-> items]  *)
(* where the items of a dict are a sequence of [k, val] in insertion       *)
(* order (Python dicts iterate in insertion order).                        *)
(* Text is a sequence of lines and a line is a sequence of one-character   *)
(* strings, so that Python's substring test `part in line` is computed.    *)
(***************************************************************************)
EXTENDS Integers, Sequences, FiniteSets, TLC

VARIABLES pc, request, library, response, element, parsed

vars == <<pc, request, library, response, element, parsed>>

(***************************************************************************)
(* Bounds of the input domain.                                             *)
(***************************************************************************)
\* scalar values and element texts range over 1..MaxVal
MaxVal == 2
\* the root mapping / root element holds at most MaxKids entries
MaxKids == 2
\* an element handed to xml_to_dict alone holds at most MaxSiblings children
MaxSiblings == 3

(***************************************************************************)
(* Python values.                                                          *)
(***************************************************************************)
PyStr(s) == [t |-> "str", v |-> s]
PyInt(n) == [t |-> "int", v |-> n]
PyList(xs) == [t |-> "list", v |-> xs]
PyDict(items) == [t |-> "dict", v |-> items]
Item(key, value) == [k |-> key, val |-> value]
\* the value of a record field the record does not have
Absent == [t |-> "absent", v |-> ""]

InSeq(x, s) == \E i \in 1..Len(s) : s[i] = x

\* `key in d`
HasKey(items, key) == \E i \in 1..Len(items) : items[i].k = key

\* `d[key]`, for a key the dict holds
Get(items, key) == items[CHOOSE i \in 1..Len(items) : items[i].k = key].val

\* `d[key] = value` for a key the dict holds: the key keeps its position
Put(items, key, value) ==
    [i \in 1..Len(items) |-> IF items[i].k = key THEN Item(key, value) ELSE items[i]]

\* Python's ==: dicts compare without regard to insertion order, lists in order
RECURSIVE PyEq(_, _)
PyEq(x, y) ==
    IF x.t # y.t THEN FALSE
    ELSE IF x.t = "dict"
         THEN /\ Len(x.v) = Len(y.v)
              /\ \A i \in 1..Len(x.v) :
                    /\ HasKey(y.v, x.v[i].k)
                    /\ PyEq(x.v[i].val, Get(y.v, x.v[i].k))
    ELSE IF x.t = "list"
         THEN /\ Len(x.v) = Len(y.v)
              /\ \A i \in 1..Len(x.v) : PyEq(x.v[i], y.v[i])
    ELSE x.v = y.v

(***************************************************************************)
(* Characters.  Every string the model uses is spelled out here so that    *)
(* substring tests and split('.') work on characters.                      *)
(***************************************************************************)
Chars(s) ==
    CASE s = "" -> <<>>
      [] s = "root" -> <<"r", "o", "o", "t">>
      [] s = "text" -> <<"t", "e", "x", "t">>
      [] s = " 1" -> <<" ", "1">>
      [] OTHER -> <<s>>

\* `part in line` for two strings
Contains(line, part) ==
    \E i \in 0..(Len(line) - Len(part)) : SubSeq(line, i + 1, i + Len(part)) = part

\* str.strip() on the element texts of the domain
strip(s) == CASE s = " " -> "" [] s = " 1" -> "1" [] OTHER -> s

(***************************************************************************)
(* Change records.                                                         *)
(***************************************************************************)
Addition(path, value) ==
    [path |-> path, change_type |-> "addition", old_value |-> Absent, new_value |-> value]
Deletion(path, value) ==
    [path |-> path, change_type |-> "deletion", old_value |-> value, new_value |-> Absent]
Modification(path, old, new) ==
    [path |-> path, change_type |-> "modification", old_value |-> old, new_value |-> new]

CountType(changes, type) ==
    Cardinality({i \in 1..Len(changes) : changes[i].change_type = type})

(***************************************************************************)
(* xml_diff.py                                                             *)
(* An element is [tag, text, kids]; text "" stands for None.               *)
(***************************************************************************)
Elem(tag, text, kids) == [tag |-> tag, text |-> text, kids |-> kids]

\* the result after the loop body ran for one child
xml_to_dict_child(result, tag, child_data) ==
    IF HasKey(result, tag)
    THEN LET cur == Get(result, tag)
             lst == IF cur.t # "list" THEN <<cur>> ELSE cur.v
         IN  Put(result, tag, PyList(Append(lst, child_data)))
    ELSE Append(result, Item(tag, child_data))

xml_to_dict_text(e) ==
    IF e.text # "" /\ strip(e.text) # ""
    THEN <<Item("text", PyStr(strip(e.text)))>>
    ELSE <<>>

RECURSIVE xml_to_dict(_)
xml_to_dict(e) ==
    LET RECURSIVE loop(_, _)
        loop(result, i) ==
            IF i > Len(e.kids) THEN result
            ELSE loop(xml_to_dict_child(result, e.kids[i].tag, xml_to_dict(e.kids[i])), i + 1)
    IN  PyDict(loop(xml_to_dict_text(e), 1))

RECURSIVE compare_xml_dicts(_, _, _, _)

\* xml_target_key without the test `source_dict[key] != value`
xml_target_key_no_test(s, key, value, ignore_keys, path) ==
    LET current_path == Append(path, key) IN
    IF InSeq(key, ignore_keys) THEN <<>>
    ELSE IF ~HasKey(s, key) THEN <<Addition(current_path, value)>>
    ELSE IF value.t = "dict" /\ Get(s, key).t = "dict"
         THEN compare_xml_dicts(Get(s, key), value, ignore_keys, current_path)
         ELSE <<Modification(current_path, Get(s, key), value)>>

\* one key of the first loop: addition, recursion or modification
xml_target_key(s, key, value, ignore_keys, path) ==
    LET current_path == Append(path, key) IN
    IF InSeq(key, ignore_keys) THEN <<>>
    ELSE IF ~HasKey(s, key) THEN <<Addition(current_path, value)>>
    ELSE IF ~PyEq(Get(s, key), value)
         THEN IF value.t = "dict" /\ Get(s, key).t = "dict"
              THEN compare_xml_dicts(Get(s, key), value, ignore_keys, current_path)
              ELSE <<Modification(current_path, Get(s, key), value)>>
    ELSE <<>>

\* one key of the second loop: deletion
xml_source_key(t, key, value, ignore_keys, path) ==
    IF InSeq(key, ignore_keys) THEN <<>>
    ELSE IF ~HasKey(t, key) THEN <<Deletion(Append(path, key), value)>>
    ELSE <<>>

compare_xml_dicts(source_dict, target_dict, ignore_keys, path) ==
    LET s == source_dict.v
        t == target_dict.v
        RECURSIVE first(_)
        first(i) ==
            IF i > Len(t) THEN <<>>
            ELSE xml_target_key(s, t[i].k, t[i].val, ignore_keys, path) \o first(i + 1)
        RECURSIVE second(_)
        second(i) ==
            IF i > Len(s) THEN <<>>
            ELSE xml_source_key(t, s[i].k, s[i].val, ignore_keys, path) \o second(i + 1)
    IN  first(1) \o second(1)

\* '.'.join of the path segments, as characters
RECURSIVE PathStr(_)
PathStr(path) ==
    IF Len(path) = 1 THEN Chars(path[1])
    ELSE PathStr(SubSeq(path, 1, Len(path) - 1)) \o <<".">> \o Chars(path[Len(path)])

\* str.split(sep) for a one-character separator
RECURSIVE split(_, _)
split(s, sep) ==
    IF \A i \in 1..Len(s) : s[i] # sep THEN <<s>>
    ELSE LET i == CHOOSE n \in 1..Len(s) : s[n] = sep /\ \A j \in 1..(n - 1) : s[j] # sep
         IN  <<SubSeq(s, 1, i - 1)>> \o split(SubSeq(s, i + 1, Len(s)), sep)

\* any(change_type == type and any(part in line for part in path.split('.')))
xml_has(changes, type, line) ==
    \E c \in 1..Len(changes) :
        /\ changes[c].change_type = type
        /\ LET parts == split(PathStr(changes[c].path), ".")
           IN  \E p \in 1..Len(parts) : Contains(line, parts[p])

\* f"{marker} {line}"
Marked(marker, line) == <<marker, " ">> \o line

xml_mark_line(changes, first_type, first_marker, line) ==
    IF xml_has(changes, first_type, line) THEN Marked(first_marker, line)
    ELSE IF xml_has(changes, "modification", line) THEN Marked("~", line)
    ELSE Marked(" ", line)

create_formatted_xml_diff(source_lines, target_lines, changes) ==
    [source |-> [i \in 1..Len(source_lines) |->
                    xml_mark_line(changes, "deletion", "-", source_lines[i])],
     target |-> [i \in 1..Len(target_lines) |->
                    xml_mark_line(changes, "addition", "+", target_lines[i])]]

(***************************************************************************)
(* Exceptions: a call either returns a value or raises.                    *)
(***************************************************************************)
Return(value) == [raised |-> FALSE, exc |-> "", msg |-> "", value |-> value]
Raise(type, msg) == [raised |-> TRUE, exc |-> type, msg |-> msg, value |-> Absent]

(***************************************************************************)
(* Documents.  A document of the input domain is a parsed tree together    *)
(* with the text that parses to it, or a text that does not parse.         *)
(***************************************************************************)
WellFormed(tree) == [wf |-> TRUE, tree |-> tree]
Malformed == [wf |-> FALSE, tree |-> Absent]

\* the text of an element, one element per line unless it has children
RECURSIVE XmlLines(_)
XmlLines(e) ==
    LET open == <<"<">> \o Chars(e.tag) \o <<">">>
        close == <<"<", "/">> \o Chars(e.tag) \o <<">">>
        RECURSIVE kidLines(_)
        kidLines(i) == IF i > Len(e.kids) THEN <<>>
                       ELSE XmlLines(e.kids[i]) \o kidLines(i + 1)
    IN  IF e.kids = <<>> THEN <<open \o Chars(e.text) \o close>>
        ELSE <<open \o Chars(e.text)>> \o kidLines(1) \o <<close>>

\* a text with an unclosed tag: <root><a></root>
XmlMalformedLines == << <<"<">> \o Chars("root") \o <<">", "<", "a", ">", "<", "/">>
                        \o Chars("root") \o <<">">> >>

XmlText(doc) == IF doc.wf THEN XmlLines(doc.tree) ELSE XmlMalformedLines

\* ET.fromstring
ET_fromstring(doc) == IF doc.wf THEN Return(doc.tree) ELSE Raise("ParseError", "")

xml_summary(changes) ==
    [additions |-> CountType(changes, "addition"),
     deletions |-> CountType(changes, "deletion"),
     modifications |-> CountType(changes, "modification")]

\* the returned dict, given the changes
xml_result(source_lines, target_lines, changes) ==
    Return([summary |-> xml_summary(changes),
            diff |-> changes,
            formatted_diff |-> create_formatted_xml_diff(source_lines, target_lines, changes)])

\* the body of the try block
compare_xml_try(source, target, ignore_keys, strict) ==
    IF ET_fromstring(source).raised THEN ET_fromstring(source)
    ELSE IF ET_fromstring(target).raised THEN ET_fromstring(target)
    ELSE xml_result(XmlText(source), XmlText(target),
                    compare_xml_dicts(xml_to_dict(ET_fromstring(source).value),
                                      xml_to_dict(ET_fromstring(target).value),
                                      ignore_keys, <<"root">>))

\* except Exception as e: raise Exception(f"... comparison failed: {str(e)}")
except_Exception(r, msg) == IF r.raised THEN Raise("Exception", msg) ELSE r

compare_xml(source, target, ignore_keys, strict) ==
    except_Exception(compare_xml_try(source, target, ignore_keys, strict),
                     "XML comparison failed")

(***************************************************************************)
(* The deepdiff library, as json_diff.py and yaml_diff.py call it:         *)
(* DeepDiff(t1, t2, ignore_order=..., exclude_paths=...) in its default    *)
(* text view.  A path is the sequence of its segments: <<"root","a","1">>  *)
(* is root['a'][1]; list indices are the segments "0", "1", ...            *)
(***************************************************************************)
Report(type, path, t1, t2) == [report_type |-> type, path |-> path, t1 |-> t1, t2 |-> t2]

\* exclude_paths: a path that does not start with 'root' is rooted by the
\* library versions that add the root themselves, and matches nothing in
\* the versions that do not
dd_exclude_paths(ignore_keys, add_root) ==
    IF add_root THEN [i \in 1..Len(ignore_keys) |-> <<"root", ignore_keys[i]>>] ELSE <<>>

RECURSIVE dd_diff(_, _, _, _, _)
\* two dicts: keys added, keys removed, then the keys both hold
dd_diff_dict(t1, t2, path, ignore_order, exclude) ==
    LET RECURSIVE added(_)
        added(i) ==
            IF i > Len(t2.v) THEN <<>>
            ELSE (IF HasKey(t1.v, t2.v[i].k) \/ InSeq(Append(path, t2.v[i].k), exclude)
                  THEN <<>>
                  ELSE <<Report("dictionary_item_added", Append(path, t2.v[i].k),
                                Absent, t2.v[i].val)>>) \o added(i + 1)
        RECURSIVE removed(_)
        removed(i) ==
            IF i > Len(t1.v) THEN <<>>
            ELSE (IF HasKey(t2.v, t1.v[i].k) \/ InSeq(Append(path, t1.v[i].k), exclude)
                  THEN <<>>
                  ELSE <<Report("dictionary_item_removed", Append(path, t1.v[i].k),
                                t1.v[i].val, Absent)>>) \o removed(i + 1)
        RECURSIVE both(_)
        both(i) ==
            IF i > Len(t2.v) THEN <<>>
            ELSE (IF HasKey(t1.v, t2.v[i].k)
                  THEN dd_diff(Get(t1.v, t2.v[i].k), t2.v[i].val,
                               Append(path, t2.v[i].k), ignore_order, exclude)
                  ELSE <<>>) \o both(i + 1)
    IN  added(1) \o removed(1) \o both(1)

\* _diff_by_forming_pairs_and_comparing_one_by_one over t1[t1_from:t1_to] and
\* t2[t2_from:t2_to] (indices from 0): the items are paired by position, an
\* item without a partner is removed (at its t1 index) or added (at its t2
\* index), a pair is compared at the t1 index
dd_diff_pairs(t1, t2, path, ignore_order, exclude, t1_from, t1_to, t2_from, t2_to) ==
    LET RECURSIVE pairs(_)
        pairs(n) ==
            IF t1_from + n >= t1_to /\ t2_from + n >= t2_to THEN <<>>
            ELSE (IF t2_from + n >= t2_to
                  THEN <<Report("iterable_item_removed", Append(path, ToString(t1_from + n)),
                                t1.v[t1_from + n + 1], Absent)>>
                  ELSE IF t1_from + n >= t1_to
                  THEN <<Report("iterable_item_added", Append(path, ToString(t2_from + n)),
                                Absent, t2.v[t2_from + n + 1])>>
                  ELSE dd_diff(t1.v[t1_from + n + 1], t2.v[t2_from + n + 1],
                               Append(path, ToString(t1_from + n)), ignore_order, exclude))
                 \o pairs(n + 1)
    IN  pairs(0)

\* difflib.SequenceMatcher: the length of the run a[i:] and b[j:] share
RECURSIVE match_length(_, _, _, _, _, _)
match_length(a, b, i, j, ahi, bhi) ==
    IF i < ahi /\ j < bhi /\ PyEq(a[i + 1], b[j + 1])
    THEN 1 + match_length(a, b, i + 1, j + 1, ahi, bhi)
    ELSE 0

\* difflib.SequenceMatcher.find_longest_match without junk: the longest
\* block, of those the one that starts earliest in a, of those the one that
\* starts earliest in b
find_longest_match(a, b, alo, ahi, blo, bhi) ==
    LET size(m) == match_length(a, b, m[1], m[2], ahi, bhi)
        starts == {m \in (alo..(ahi - 1)) \X (blo..(bhi - 1)) : size(m) > 0}
        before(m, u) == \/ size(m) > size(u)
                        \/ size(m) = size(u) /\ m[1] < u[1]
                        \/ size(m) = size(u) /\ m[1] = u[1] /\ m[2] <= u[2]
    IN  IF starts = {} THEN [i |-> alo, j |-> blo, k |-> 0]
        ELSE LET best == CHOOSE m \in starts : \A u \in starts : before(m, u)
             IN  [i |-> best[1], j |-> best[2], k |-> size(best)]

\* difflib.SequenceMatcher.get_matching_blocks, without the closing sentinel:
\* the longest block m, and the blocks to its left and to its right
RECURSIVE get_matching_blocks(_, _, _, _, _, _)
matching_blocks_around(a, b, alo, ahi, blo, bhi, m) ==
    IF m.k = 0 THEN <<>>
    ELSE (IF alo < m.i /\ blo < m.j
          THEN get_matching_blocks(a, b, alo, m.i, blo, m.j) ELSE <<>>)
         \o <<m>>
         \o (IF m.i + m.k < ahi /\ m.j + m.k < bhi
             THEN get_matching_blocks(a, b, m.i + m.k, ahi, m.j + m.k, bhi) ELSE <<>>)

get_matching_blocks(a, b, alo, ahi, blo, bhi) ==
    matching_blocks_around(a, b, alo, ahi, blo, bhi,
                           find_longest_match(a, b, alo, ahi, blo, bhi))

\* _diff_ordered_iterable_by_difflib, from block n on: between two matching
\* blocks the opcode is replace (the two ranges are paired by position),
\* delete (the t1 range is removed) or insert (the t2 range is added);
\* dd_diff_pairs reports a range without a counterpart as removed or added
RECURSIVE dd_opcodes(_, _, _, _, _, _, _, _, _)
dd_opcodes(t1, t2, path, ignore_order, exclude, blocks, n, i, j) ==
    IF n > Len(blocks) THEN <<>>
    ELSE dd_diff_pairs(t1, t2, path, ignore_order, exclude, i, blocks[n].i, j, blocks[n].j)
         \o dd_opcodes(t1, t2, path, ignore_order, exclude, blocks, n + 1,
                       blocks[n].i + blocks[n].k, blocks[n].j + blocks[n].k)

dd_diff_by_difflib(t1, t2, path, ignore_order, exclude) ==
    dd_opcodes(t1, t2, path, ignore_order, exclude,
               get_matching_blocks(t1.v, t2.v, 0, Len(t1.v), 0, Len(t2.v))
                   \o <<[i |-> Len(t1.v), j |-> Len(t2.v), k |-> 0]>>,
               1, 0, 0)

\* the alignment by difflib is kept unless it has more than one entry and
\* pairing by position has no more entries than it
dd_fewer_entries(by_difflib, by_pairs) ==
    IF Len(by_difflib) > 1 /\ Len(by_difflib) >= Len(by_pairs) THEN by_pairs ELSE by_difflib

\* _all_values_basic_hashable
dd_basic_hashable(t) == \A i \in 1..Len(t.v) : t.v[i].t \in {"int", "str"}

\* two lists, ignore_order=False (_diff_iterable_in_order of deepdiff 6.2
\* and later): lists of hashable items are aligned by difflib first
dd_diff_ordered(t1, t2, path, ignore_order, exclude) ==
    IF dd_basic_hashable(t1) /\ dd_basic_hashable(t2)
    THEN dd_fewer_entries(dd_diff_by_difflib(t1, t2, path, ignore_order, exclude),
                          dd_diff_pairs(t1, t2, path, ignore_order, exclude,
                                        0, Len(t1.v), 0, Len(t2.v)))
    ELSE dd_diff_pairs(t1, t2, path, ignore_order, exclude, 0, Len(t1.v), 0, Len(t2.v))

\* the indices (from 1) of the first occurrence of every item of l that
\* other does not hold: the hashes one side has and the other has not
dd_unmatched(l, other) ==
    SelectSeq([i \in 1..Len(l) |-> i],
              LAMBDA i : /\ \A h \in 1..(i - 1) : ~PyEq(l[h], l[i])
                         /\ \A h \in 1..Len(other) : ~PyEq(l[i], other[h]))

\* _get_most_in_common_pairs_in_iterables: the closest pair first, then the
\* closest pair of the items left.  A pair is <<t1 index, t2 index>>.  The
\* distance of two numbers x, y is cutoff * |x - y| / (x + y), below the
\* cutoff for distinct positive numbers; other items of the domain's lists
\* do not occur.  Among pairs at one distance the library follows the
\* iteration order of a set; the lists of the domain give no such tie.
RECURSIVE dd_most_in_common_pairs(_, _, _, _)
dd_most_in_common_pairs(t1, t2, removed, added) ==
    LET gap(c) == IF t1.v[c[1]].v > t2.v[c[2]].v THEN t1.v[c[1]].v - t2.v[c[2]].v
                  ELSE t2.v[c[2]].v - t1.v[c[1]].v
        sum(c) == t1.v[c[1]].v + t2.v[c[2]].v
        pairs == {c \in {removed[n] : n \in 1..Len(removed)} \X {added[n] : n \in 1..Len(added)} :
                     t1.v[c[1]].t = "int" /\ t2.v[c[2]].t = "int" /\ gap(c) < sum(c)}
        before(c, d) == \/ gap(c) * sum(d) < gap(d) * sum(c)
                        \/ gap(c) * sum(d) = gap(d) * sum(c) /\ c[2] < d[2]
                        \/ gap(c) * sum(d) = gap(d) * sum(c) /\ c[2] = d[2] /\ c[1] <= d[1]
    IN  IF pairs = {} THEN {}
        ELSE LET best == CHOOSE c \in pairs : \A d \in pairs : before(c, d)
             IN  {best} \cup dd_most_in_common_pairs(
                                 t1, t2,
                                 SelectSeq(removed, LAMBDA r : r # best[1]),
                                 SelectSeq(added, LAMBDA a : a # best[2]))

\* the reports of _diff_iterable_with_deephash, given the pairs: every item
\* t2 alone holds is compared with its partner at the partner's t1 index,
\* or added at its own index; then every item of t1 left is removed
dd_report_unordered(t1, t2, path, ignore_order, exclude, removed, added, pairs) ==
    LET RECURSIVE of_added(_)
        of_added(n) ==
            IF n > Len(added) THEN <<>>
            ELSE (IF \E c \in pairs : c[2] = added[n]
                  THEN LET r == (CHOOSE c \in pairs : c[2] = added[n])[1]
                       IN  dd_diff(t1.v[r], t2.v[added[n]], Append(path, ToString(r - 1)),
                                   ignore_order, exclude)
                  ELSE <<Report("iterable_item_added", Append(path, ToString(added[n] - 1)),
                                Absent, t2.v[added[n]])>>)
                 \o of_added(n + 1)
        RECURSIVE of_removed(_)
        of_removed(n) ==
            IF n > Len(removed) THEN <<>>
            ELSE (IF \E c \in pairs : c[1] = removed[n] THEN <<>>
                  ELSE <<Report("iterable_item_removed", Append(path, ToString(removed[n] - 1)),
                                t1.v[removed[n]], Absent)>>)
                 \o of_removed(n + 1)
    IN  of_added(1) \o of_removed(1)

\* the number of distinct items of a list
dd_hashtable_len(l) == Len(dd_unmatched(l, <<>>))

\* pairs are looked for unless the items only one side holds are more than
\* cutoff_intersection_for_pairs (0.7) of the items of both sides and one
dd_get_pairs(t1, t2, removed, added) ==
    10 * (Len(added) + Len(removed)) <= 7 * (dd_hashtable_len(t1.v) + dd_hashtable_len(t2.v) + 1)

\* two lists, ignore_order=True (_diff_iterable_with_deephash of deepdiff 5
\* and later)
dd_diff_unordered(t1, t2, path, ignore_order, exclude) ==
    dd_report_unordered(t1, t2, path, ignore_order, exclude,
                        dd_unmatched(t1.v, t2.v), dd_unmatched(t2.v, t1.v),
                        IF dd_get_pairs(t1, t2, dd_unmatched(t1.v, t2.v), dd_unmatched(t2.v, t1.v))
                        THEN dd_most_in_common_pairs(t1, t2, dd_unmatched(t1.v, t2.v),
                                                     dd_unmatched(t2.v, t1.v))
                        ELSE {})

dd_diff(t1, t2, path, ignore_order, exclude) ==
    IF InSeq(path, exclude) THEN <<>>
    ELSE IF t1.t # t2.t THEN <<Report("type_changes", path, t1, t2)>>
    ELSE IF t1.t = "dict" THEN dd_diff_dict(t1, t2, path, ignore_order, exclude)
    ELSE IF t1.t = "list"
         THEN IF ignore_order THEN dd_diff_unordered(t1, t2, path, ignore_order, exclude)
              ELSE dd_diff_ordered(t1, t2, path, ignore_order, exclude)
    ELSE IF t1.v # t2.v THEN <<Report("values_changed", path, t1, t2)>>
    ELSE <<>>

OfType(reports, type) == SelectSeq(reports, LAMBDA r : r.report_type = type)

\* mutual_add_removes_to_become_value_changes: an item removed and an item
\* added at one path become one changed value, after the changed values
\* found before
dd_mutual(removed, added) ==
    LET mutual == SelectSeq(removed, LAMBDA r : \E n \in 1..Len(added) : added[n].path = r.path)
    IN  [n \in 1..Len(mutual) |->
            Report("values_changed", mutual[n].path, mutual[n].t1,
                   added[CHOOSE h \in 1..Len(added) : added[h].path = mutual[n].path].t2)]

\* the reports of one type at the paths that none of others reports
dd_not_mutual(reports, others) ==
    SelectSeq(reports, LAMBDA r : \A n \in 1..Len(others) : others[n].path # r.path)

\* the result, keyed by report type; dictionary_item_added and
\* dictionary_item_removed are sets of paths, the others map a path to values
dd_text_view(reports) ==
    LET paths(rs) == [i \in 1..Len(rs) |-> rs[i].path]
    IN  [dictionary_item_added |-> paths(OfType(reports, "dictionary_item_added")),
         dictionary_item_removed |-> paths(OfType(reports, "dictionary_item_removed")),
         values_changed |-> OfType(reports, "values_changed")
                            \o dd_mutual(OfType(reports, "iterable_item_removed"),
                                         OfType(reports, "iterable_item_added")),
         type_changes |-> OfType(reports, "type_changes"),
         iterable_item_added |-> dd_not_mutual(OfType(reports, "iterable_item_added"),
                                               OfType(reports, "iterable_item_removed")),
         iterable_item_removed |-> dd_not_mutual(OfType(reports, "iterable_item_removed"),
                                                 OfType(reports, "iterable_item_added"))]

DeepDiff(t1, t2, ignore_order, exclude) ==
    dd_text_view(dd_diff(t1, t2, <<"root">>, ignore_order, exclude))

\* a deepdiff path as the string the library renders: root['a'][1]
RECURSIVE DDPathStr(_)
DDPathStr(path) ==
    IF Len(path) = 1 THEN Chars(path[1])
    ELSE LET seg == path[Len(path)]
             init == DDPathStr(SubSeq(path, 1, Len(path) - 1))
         IN  IF seg \in {ToString(i) : i \in 0..9}
             THEN init \o <<"[", seg, "]">>
             ELSE init \o <<"[", "'">> \o Chars(seg) \o <<"'", "]">>

(***************************************************************************)
(* json_diff.py and yaml_diff.py (the same code over two parsers)          *)
(***************************************************************************)
\* a value on one line: 1, "1", [1, 2], {"k": 1}
RECURSIVE JsonCompact(_)
JsonCompact(x) ==
    LET RECURSIVE items(_)
        items(i) ==
            IF i > Len(x.v) THEN <<>>
            ELSE (IF i > 1 THEN <<",", " ">> ELSE <<>>)
                 \o (IF x.t = "dict"
                     THEN <<"\"">> \o Chars(x.v[i].k) \o <<"\"", ":", " ">>
                          \o JsonCompact(x.v[i].val)
                     ELSE JsonCompact(x.v[i]))
                 \o items(i + 1)
    IN  CASE x.t = "int" -> <<ToString(x.v)>>
          [] x.t = "str" -> <<"\"">> \o Chars(x.v) \o <<"\"">>
          [] x.t = "list" -> <<"[">> \o items(1) \o <<"]">>
          [] x.t = "dict" -> <<"{">> \o items(1) \o <<"}">>

\* the JSON text of a tree: a root mapping has one line per key
JsonLines(x) ==
    IF x.t = "dict" /\ x.v # <<>>
    THEN <<<<"{">>>>
         \o [i \in 1..Len(x.v) |->
                <<"\"">> \o Chars(x.v[i].k) \o <<"\"", ":", " ">> \o JsonCompact(x.v[i].val)
                \o (IF i < Len(x.v) THEN <<",">> ELSE <<>>)]
         \o <<<<"}">>>>
    ELSE <<JsonCompact(x)>>

\* a text the parser rejects: {"a":}
JsonMalformedLines == << <<"{", "\"", "a", "\"", ":", "}">> >>

JsonText(doc) == IF doc.wf THEN JsonLines(doc.tree) ELSE JsonMalformedLines

\* the YAML text of a tree in block style, nested mappings indented
RECURSIVE YamlLines(_, _)
YamlLines(x, indent) ==
    LET RECURSIVE items(_)
        items(i) ==
            IF i > Len(x.v) THEN <<>>
            ELSE (IF x.v[i].val.t = "dict" /\ x.v[i].val.v # <<>>
                  THEN <<indent \o Chars(x.v[i].k) \o <<":">>>>
                       \o YamlLines(x.v[i].val, indent \o <<" ", " ">>)
                  ELSE <<indent \o Chars(x.v[i].k) \o <<":", " ">>
                         \o JsonCompact(x.v[i].val)>>)
                 \o items(i + 1)
    IN  IF x.t = "dict" /\ x.v # <<>> THEN items(1) ELSE <<indent \o JsonCompact(x)>>

\* a text the parser rejects: a: [1
YamlMalformedLines == << <<"a", ":", " ", "[", "1">> >>

YamlText(doc) == IF doc.wf THEN YamlLines(doc.tree, <<>>) ELSE YamlMalformedLines

\* json.loads
json_loads(doc) == IF doc.wf THEN Return(doc.tree) ELSE Raise("JSONDecodeError", "")

\* yaml.safe_load
yaml_safe_load(doc) == IF doc.wf THEN Return(doc.tree) ELSE Raise("YAMLError", "")

\* any(key in line for key in paths): the whole path string is looked for
dd_any_key_in(line, paths) ==
    \E i \in 1..Len(paths) : Contains(line, DDPathStr(paths[i]))

dd_mark_line(first_paths, first_marker, changed_paths, line) ==
    IF dd_any_key_in(line, first_paths) THEN Marked(first_marker, line)
    ELSE IF dd_any_key_in(line, changed_paths) THEN Marked("~", line)
    ELSE Marked(" ", line)

create_formatted_json_diff(source_lines, target_lines, diff) ==
    LET changed == [i \in 1..Len(diff.values_changed) |-> diff.values_changed[i].path]
    IN  [source |-> [i \in 1..Len(source_lines) |->
                        dd_mark_line(diff.dictionary_item_removed, "-", changed, source_lines[i])],
         target |-> [i \in 1..Len(target_lines) |->
                        dd_mark_line(diff.dictionary_item_added, "+", changed, target_lines[i])]]

create_formatted_yaml_diff(source_lines, target_lines, diff) ==
    create_formatted_json_diff(source_lines, target_lines, diff)

dd_summary(diff) ==
    [additions |-> Len(diff.dictionary_item_added) + Len(diff.iterable_item_added),
     deletions |-> Len(diff.dictionary_item_removed) + Len(diff.iterable_item_removed),
     modifications |-> Len(diff.values_changed)]

\* the three loops that build detailed_diff.  diff['dictionary_item_added']
\* and diff['dictionary_item_removed'] are sets of paths: the subscript
\* [path] in the first two loops raises TypeError on their first element
dd_detailed_diff(diff) ==
    IF diff.dictionary_item_added # <<>> THEN Raise("TypeError", "")
    ELSE IF diff.dictionary_item_removed # <<>> THEN Raise("TypeError", "")
    ELSE Return([i \in 1..Len(diff.values_changed) |->
                    Modification(diff.values_changed[i].path,
                                 diff.values_changed[i].t1,
                                 diff.values_changed[i].t2)])

\* the try block after the DeepDiff call: the returned dict, unless a loop raises
dd_result(source_lines, target_lines, diff) ==
    IF dd_detailed_diff(diff).raised THEN dd_detailed_diff(diff)
    ELSE Return([summary |-> dd_summary(diff),
                 diff |-> dd_detailed_diff(diff).value,
                 formatted_diff |-> create_formatted_json_diff(source_lines, target_lines, diff)])

\* the body of the try block, given the two parse results and the texts
dd_compare_try(source_data, target_data, source_lines, target_lines, ignore_keys, strict, add_root) ==
    IF source_data.raised THEN source_data
    ELSE IF target_data.raised THEN target_data
    ELSE dd_result(source_lines, target_lines,
                   DeepDiff(source_data.value, target_data.value, ~strict,
                            dd_exclude_paths(ignore_keys, add_root)))

compare_json(source, target, ignore_keys, strict, add_root) ==
    except_Exception(dd_compare_try(json_loads(source), json_loads(target),
                                    JsonText(source), JsonText(target),
                                    ignore_keys, strict, add_root),
                     "JSON comparison failed")

compare_yaml(source, target, ignore_keys, strict, add_root) ==
    except_Exception(dd_compare_try(yaml_safe_load(source), yaml_safe_load(target),
                                    YamlText(source), YamlText(target),
                                    ignore_keys, strict, add_root),
                     "YAML comparison failed")

(***************************************************************************)
(* main.py: POST /compare                                                  *)
(***************************************************************************)
\* str.lower() on the format strings of the domain
lower(s) == CASE s = "JSON" -> "json" [] s = "TOML" -> "toml" [] OTHER -> s

\* the body of the try block
compare_files_try(req, add_root) ==
    LET file_format == lower(req.format) IN
    IF file_format = "json"
    THEN compare_json(req.source_content, req.target_content, req.ignore_keys, req.strict, add_root)
    ELSE IF file_format = "yaml"
    THEN compare_yaml(req.source_content, req.target_content, req.ignore_keys, req.strict, add_root)
    ELSE IF file_format = "xml"
    THEN compare_xml(req.source_content, req.target_content, req.ignore_keys, req.strict)
    ELSE Raise("HTTPException", "Unsupported format")

HTTPError(status_code, detail) == [status_code |-> status_code, detail |-> detail, body |-> Absent]
HTTPOk(body) == [status_code |-> 200, detail |-> "", body |-> body]

\* the except clauses, tried in order; every exception class of the model
\* derives from Exception, HTTPException included
compare_files_except(r) ==
    IF ~r.raised THEN HTTPOk(r.value)
    ELSE IF r.exc = "JSONDecodeError" THEN HTTPError(400, "Invalid JSON format")
    ELSE IF r.exc = "YAMLError" THEN HTTPError(400, "Invalid YAML format")
    ELSE IF r.exc = "ParseError" THEN HTTPError(400, "Invalid XML format")
    ELSE HTTPError(500, "Comparison failed")

compare_files(req, add_root) == compare_files_except(compare_files_try(req, add_root))

(***************************************************************************)
(* The input domain.                                                       *)
(***************************************************************************)
\* sequences over S of length at most n
SeqsUpTo(S, n) == UNION {[1..m -> S] : m \in 0..n}

Vals == 1..MaxVal

\* JSON / YAML trees: key "a" holds any value of the domain, key "b" an
\* integer.  The lists are the pairs of distinct items out of 1, 2, 3 in
\* both orders, the list of the three and a list of one item.
ListItems == {1, 2, 3}
TreeLists == {PyList(<<PyInt(p[1]), PyInt(p[2])>>) : p \in {q \in ListItems \X ListItems : q[1] # q[2]}}
             \cup {PyList(<<PyInt(1), PyInt(2), PyInt(3)>>), PyList(<<PyInt(3)>>)}
TreeInts == {PyInt(n) : n \in Vals}
TreeValues == TreeInts \cup {PyStr("1")} \cup TreeLists
              \cup {PyDict(<<Item("k", x)>>) : x \in TreeInts}
TreeRoots == {PyInt(1), PyDict(<<>>)}
             \cup {PyDict(<<Item("a", x)>>) : x \in TreeValues}
             \cup {PyDict(<<Item("b", y)>>) : y \in TreeInts}
             \cup {PyDict(<<Item("a", x), Item("b", y)>>) : x \in TreeValues, y \in TreeInts}
TreeDocs == {Malformed} \cup {WellFormed(x) : x \in TreeRoots}

\* XML documents: the root holds at most MaxKids children; a child is an
\* <a> with a text or a <b> with one <k> child
XmlTexts == {"1", "2"}
XmlKids == {Elem("a", text, <<>>) : text \in XmlTexts}
           \cup {Elem("b", "", <<Elem("k", text, <<>>)>>) : text \in XmlTexts}
XmlRoots == {Elem("root", "", kids) : kids \in SeqsUpTo(XmlKids, MaxKids)}
XmlDocs == {Malformed} \cup {WellFormed(e) : e \in XmlRoots}

IgnoreKeys == {<<>>, <<"a">>, <<"k">>}

\* elements handed to xml_to_dict alone
ParseKids == {Elem(tag, text, <<>>) : tag \in {"a", "b", "text"}, text \in {"", "1"}}
             \cup {Elem("a", "", <<Elem(tag, ToString(n), <<>>)>>) :
                       tag \in {"a", "text"}, n \in Vals}
ParseElements == {Elem("root", text, kids) :
                      text \in {"", " ", " 1"} \cup {ToString(n) : n \in Vals},
                      kids \in SeqsUpTo(ParseKids, MaxSiblings)}

Request(format, source, target, ignore_keys, strict) ==
    [format |-> format, source_content |-> source, target_content |-> target,
     ignore_keys |-> ignore_keys, strict |-> strict]

NoRequest == Request("", Malformed, Malformed, <<>>, TRUE)
NoResponse == HTTPError(0, "")
NoElement == Elem("", "", <<>>)

(***************************************************************************)
(* The state machine: one request arrives and is answered by the handler;  *)
(* separately, one element is converted by xml_to_dict.                    *)
(***************************************************************************)
Init ==
    /\ pc = "idle"
    /\ request = NoRequest
    /\ library = FALSE
    /\ response = NoResponse
    /\ element = NoElement
    /\ parsed = Absent

\* a request body arrives; library records whether the installed deepdiff
\* roots the entries of exclude_paths itself
Arrive(req, add_root) ==
    /\ pc' = "received"
    /\ request' = req
    /\ library' = add_root
    /\ UNCHANGED <<response, element, parsed>>

ReceiveTrees ==
    /\ pc = "idle"
    /\ \E format \in {"json", "JSON", "yaml"}, source \in TreeDocs, target \in TreeDocs,
          ignore_keys \in IgnoreKeys, strict \in BOOLEAN, add_root \in BOOLEAN :
        Arrive(Request(format, source, target, ignore_keys, strict), add_root)

ReceiveXml ==
    /\ pc = "idle"
    /\ \E source \in XmlDocs, target \in XmlDocs,
          ignore_keys \in IgnoreKeys, strict \in BOOLEAN :
        Arrive(Request("xml", source, target, ignore_keys, strict), FALSE)

ReceiveOther ==
    /\ pc = "idle"
    /\ \E format \in {"toml", "TOML", ""}, source \in {Malformed, WellFormed(PyDict(<<>>))},
          target \in {Malformed, WellFormed(PyDict(<<>>))},
          ignore_keys \in IgnoreKeys, strict \in BOOLEAN :
        Arrive(Request(format, source, target, ignore_keys, strict), FALSE)

\* the handler, from its first line to the response
Handle ==
    /\ pc = "received"
    /\ pc' = "done"
    /\ response' = compare_files(request, library)
    /\ UNCHANGED <<request, library, element, parsed>>

CompareJson == lower(request.format) = "json" /\ Handle

CompareYaml == lower(request.format) = "yaml" /\ Handle

CompareXml == lower(request.format) = "xml" /\ Handle

CompareUnsupported == lower(request.format) \notin {"json", "yaml", "xml"} /\ Handle

Next ==
    \/ ReceiveTrees
    \/ ReceiveXml
    \/ ReceiveOther
    \/ CompareJson
    \/ CompareYaml
    \/ CompareXml
    \/ CompareUnsupported

Spec == Init /\ [][Next]_vars

ParseElement ==
    /\ pc = "idle"
    /\ \E e \in ParseElements :
        /\ pc' = "parsed"
        /\ element' = e
        /\ parsed' = xml_to_dict(e)
        /\ UNCHANGED <<request, library, response>>

NextParse == ParseElement

SpecParse == Init /\ [][NextParse]_vars

(***************************************************************************)
(* Properties.                                                             *)
(***************************************************************************)
Supported == {"json", "yaml", "xml"}
Fmt == lower(request.format)
Done == pc = "done"
Ok == pc = "done" /\ response.status_code = 200
Diff == response.body.diff
BothParse == request.source_content.wf /\ request.target_content.wf

\* the tree the differ sees for a document of the request
TreeOf(doc) == IF Fmt = "xml" THEN xml_to_dict(doc.tree) ELSE doc.tree
SourceTree == TreeOf(request.source_content)
TargetTree == TreeOf(request.target_content)

\* the text of a document of the request, as lines
TextOf(doc) == IF Fmt = "xml" THEN XmlText(doc)
               ELSE IF Fmt = "json" THEN JsonText(doc) ELSE YamlText(doc)

Last(path) == path[Len(path)]
IsPrefix(p, q) == Len(p) <= Len(q) /\ SubSeq(q, 1, Len(p)) = p

\* two sequences holding the same multiset of elements in a different order
Occurrences(xs, x) == Cardinality({j \in 1..Len(xs) : PyEq(xs[j], x)})
Permuted(x, y) ==
    /\ x.t = "list" /\ y.t = "list"
    /\ Len(x.v) = Len(y.v)
    /\ ~PyEq(x, y)
    /\ \A i \in 1..Len(x.v) : Occurrences(x.v, x.v[i]) = Occurrences(y.v, x.v[i])

\* the keys both root mappings hold and ignore_keys does not list
SharedKeys ==
    IF SourceTree.t = "dict" /\ TargetTree.t = "dict"
    THEN {key \in {SourceTree.v[i].k : i \in 1..Len(SourceTree.v)} :
             HasKey(TargetTree.v, key) /\ ~InSeq(key, request.ignore_keys)}
    ELSE {}

\* C1: the summary counts equal the numbers of addition, deletion and
\* modification records of the returned diff list, in all three formats.
C1_SummaryConsistency ==
    Ok => /\ response.body.summary.additions = CountType(Diff, "addition")
          /\ response.body.summary.deletions = CountType(Diff, "deletion")
          /\ response.body.summary.modifications = CountType(Diff, "modification")

\* C2: no record of the returned diff has a path whose last segment is a
\* key listed in ignore_keys, at any depth, in all three formats.
C2_ExclusionCorrectness ==
    Ok => \A i \in 1..Len(Diff) : ~InSeq(Last(Diff[i].path), request.ignore_keys)

\* C3: a key holding the same multiset of elements in a different order on
\* the two sides yields no record when strict is false and exactly one
\* modification at the key's own path when strict is true, in all formats.
C3_OrderSensitivity ==
    Ok => \A key \in SharedKeys :
            Permuted(Get(SourceTree.v, key), Get(TargetTree.v, key)) =>
                LET under == {i \in 1..Len(Diff) : IsPrefix(<<"root", key>>, Diff[i].path)}
                IN  IF request.strict
                    THEN /\ Cardinality(under) = 1
                         /\ \A i \in under : /\ Diff[i].path = <<"root", key>>
                                             /\ Diff[i].change_type = "modification"
                    ELSE under = {}

\* the same request with source and target exchanged
SwappedResponse ==
    compare_files(Request(request.format, request.target_content, request.source_content,
                          request.ignore_keys, request.strict), library)

Mirrored(r, q) ==
    /\ r.path = q.path
    /\ \/ /\ r.change_type = "addition" /\ q.change_type = "deletion"
          /\ r.new_value = q.old_value
       \/ /\ r.change_type = "deletion" /\ q.change_type = "addition"
          /\ r.old_value = q.new_value
       \/ /\ r.change_type = "modification" /\ q.change_type = "modification"
          /\ r.old_value = q.new_value /\ r.new_value = q.old_value

\* C4: whenever a comparison returns a diff, the comparison of the exchanged
\* documents returns one too and the two mirror each other: additions
\* against deletions with the same value, modifications with old and new
\* exchanged, at the same paths.
C4_Symmetry ==
    Ok => LET swapped == SwappedResponse
              forward == Diff
              backward == swapped.body.diff
          IN  /\ swapped.status_code = 200
              /\ \A i \in 1..Len(forward) :
                    \E j \in 1..Len(backward) : Mirrored(forward[i], backward[j])
              /\ \A j \in 1..Len(backward) :
                    \E i \in 1..Len(forward) : Mirrored(forward[i], backward[j])

\* C5: a parseable document compared with itself gives an empty diff list
\* and a summary of zeros, for any ignore_keys and strict, in all formats.
C5_EqualInputs ==
    (Done /\ Fmt \in Supported /\ BothParse
          /\ request.source_content = request.target_content)
        => /\ response.status_code = 200
           /\ Diff = <<>>
           /\ response.body.summary = [additions |-> 0, deletions |-> 0, modifications |-> 0]

\* an XML document with repeated and nested children compared with itself
C5_Witness ==
    /\ Done /\ Fmt = "xml" /\ BothParse
    /\ request.source_content = request.target_content
    /\ Len(request.source_content.tree.kids) = MaxKids
    /\ \E i \in 1..MaxKids : request.source_content.tree.kids[i].kids # <<>>

InvalidDetail(format) ==
    CASE format = "json" -> "Invalid JSON format"
      [] format = "yaml" -> "Invalid YAML format"
      [] format = "xml" -> "Invalid XML format"

\* C6: a malformed source or target ends in the parse error that names the
\* format, not in the generic 'Comparison failed'; an unsupported format is
\* rejected with its own error; neither returns a body.
C6_ClassifiedErrors ==
    Done => /\ (Fmt \in Supported /\ ~BothParse) =>
                 /\ response.detail = InvalidDetail(Fmt)
                 /\ response.body = Absent
            /\ Fmt \notin Supported =>
                 /\ response.detail = "Unsupported format"
                 /\ response.body = Absent

\* C7: a key present on both sides with unequal values that are not both
\* mappings yields a modification record at that key carrying the old and
\* the new value; roots of different type yield a modification at the root;
\* unequal documents never give an empty diff.
C7_MismatchReported ==
    Ok => /\ \A key \in SharedKeys :
                LET old == Get(SourceTree.v, key)
                    new == Get(TargetTree.v, key)
                IN  (/\ ~PyEq(old, new)
                     /\ ~(old.t = "dict" /\ new.t = "dict")
                     /\ (request.strict \/ ~Permuted(old, new)))
                    => \E i \in 1..Len(Diff) : Diff[i] = Modification(<<"root", key>>, old, new)
          /\ SourceTree.t # TargetTree.t =>
                \E i \in 1..Len(Diff) : Diff[i] = Modification(<<"root">>, SourceTree, TargetTree)
          /\ (request.ignore_keys = <<>> /\ request.strict /\ ~PyEq(SourceTree, TargetTree))
                => Diff # <<>>

\* the children of an element that carry a tag, in document order
WithTag(e, tag) == SelectSeq(e.kids, LAMBDA c : c.tag = tag)

\* C8: xml_to_dict stores the trimmed direct text under 'text' exactly when
\* it is non-blank, a child tag occurring once as that child's mapping and a
\* child tag occurring several times as the sequence of the children's
\* mappings in document order.
C8_XmlToDictShape ==
    pc = "parsed" =>
        /\ strip(element.text) # "" =>
              /\ HasKey(parsed.v, "text")
              /\ Get(parsed.v, "text") = PyStr(strip(element.text))
        /\ (strip(element.text) = "" /\ WithTag(element, "text") = <<>>) =>
              ~HasKey(parsed.v, "text")
        /\ \A i \in 1..Len(element.kids) :
              LET same == WithTag(element, element.kids[i].tag)
              IN  /\ HasKey(parsed.v, element.kids[i].tag)
                  /\ Get(parsed.v, element.kids[i].tag) =
                        IF Len(same) = 1 THEN xml_to_dict(same[1])
                        ELSE PyList([j \in 1..Len(same) |-> xml_to_dict(same[j])])

KeyIndex(items, key) == CHOOSE i \in 1..Len(items) : items[i].k = key

\* a record of the root level's second loop
RootDeletion(r) == Len(r.path) = 2 /\ r.change_type = "deletion"

\* C9: two parseable documents give a diff list in which, at the root level,
\* the additions, modifications and spliced nested records follow the
\* target's key order and precede the deletions, which follow the source's
\* key order, in all three formats.
C9_RecordOrder ==
    (Done /\ Fmt \in Supported /\ BothParse) =>
        /\ response.status_code = 200
        /\ \A i \in 1..Len(Diff) : \A j \in (i + 1)..Len(Diff) :
              IF RootDeletion(Diff[i])
              THEN /\ RootDeletion(Diff[j])
                   /\ KeyIndex(SourceTree.v, Diff[i].path[2])
                        < KeyIndex(SourceTree.v, Diff[j].path[2])
              ELSE RootDeletion(Diff[j])
                   \/ KeyIndex(TargetTree.v, Diff[i].path[2])
                        <= KeyIndex(TargetTree.v, Diff[j].path[2])

\* the fragments of a record's path
Fragments(path) ==
    IF Fmt = "xml" THEN split(PathStr(path), ".")
    ELSE [i \in 1..Len(path) |-> Chars(path[i])]

HasFragment(type, line) ==
    \E i \in 1..Len(Diff) :
        /\ Diff[i].change_type = type
        /\ \E p \in 1..Len(Fragments(Diff[i].path)) :
              Contains(line, Fragments(Diff[i].path)[p])

ExpectedLine(first_type, first_marker, line) ==
    IF HasFragment(first_type, line) THEN Marked(first_marker, line)
    ELSE IF HasFragment("modification", line) THEN Marked("~", line)
    ELSE Marked(" ", line)

\* C10: every input line comes back once, in order, behind its marker: '-'
\* ('+' in the target) when a fragment of a deletion (addition) record's
\* path occurs in the line, else '~' when a fragment of a modification
\* record's path does, else ' ', in all three formats.
C10_LineMarkers ==
    Ok => /\ response.body.formatted_diff.source =
                [i \in 1..Len(TextOf(request.source_content)) |->
                    ExpectedLine("deletion", "-", TextOf(request.source_content)[i])]
          /\ response.body.formatted_diff.target =
                [i \in 1..Len(TextOf(request.target_content)) |->
                    ExpectedLine("addition", "+", TextOf(request.target_content)[i])]

====
